---- MODULE Spec2Model ----
(***************************************************************************)
(* The CIDR block allocator of vpc-setup.py: the widening scan of the      *)
(* ip_allocations table, cidr_slicing, the commit of a split or of an      *)
(* exact-size block, and the manual-CIDR path.                             *)
(*                                                                         *)
(* A CIDR is a record [addr, len]: the network address as an integer and   *)
(* the prefix length.  The size attribute "/NN" of a table item is the     *)
(* integer NN.  Each step of a run is one call to the table (scan,         *)
(* update_item, delete_item) together with the local code up to the next   *)
(* call.                                                                   *)
(***************************************************************************)
EXTENDS Integers, Sequences, FiniteSets, TLC

VARIABLES
    ledger,        \* the ip_allocations table: CIDR -> item
    pc,            \* per run slot: position in the script
    account_id,    \* --account_id
    base_region,   \* --region
    ip_allocation, \* --ip_allocation, as the integer NN of "/NN"
    manual_cidr,   \* --manual_cidr, NoCidr for "no"
    netmask,       \* the size the next scan asks for
    ip_block,      \* the CIDR of response['Items'][0]
    network_list,  \* the result of cidr_slicing
    idx,           \* position of the "for network in network_list" loop
    new_cidr,      \* the CIDR handed to the Terraform step
    ops,           \* history: the table calls of the current run, in order
    pre,           \* history: the table as it was when the run started
    runs,          \* history: number of runs started
    overlapClaim,  \* history: a manual CIDR overlapped another item's CIDR
    readAt         \* history: table writes of all runs before the scan that found a block

vars == <<ledger, pc, account_id, base_region, ip_allocation, manual_cidr,
          netmask, ip_block, network_list, idx, new_cidr, ops, pre, runs,
          overlapClaim, readAt>>

locals == <<account_id, base_region, ip_allocation, manual_cidr, netmask,
            ip_block, network_list, idx, new_cidr>>

----------------------------------------------------------------------------
(* Bounds and program constants *)

MaxRuns == 2          \* runs executed one after the other under Spec

MinNetmask == 16      \* "if netmask < 16: exit(...)"

MaxAllocation == 28   \* "should be /18 - /28"

AddrBits == 32        \* ipaddress.IPv4Network

Procs == {1, 2}

Regions == {"us-west-2", "eu-west-1"}

Accounts == {"A", "B"}

\* account_mapping: account_type of each account (a get_item on another table)
account_type == [a \in Accounts |-> IF a = "A" THEN "production" ELSE "internal"]

config_map ==
    [t \in {"production-pci", "production", "nonproduction-customer", "internal"} |->
        CASE t = "production-pci" -> "prod-pci"
          [] t = "production" -> "prod"
          [] t = "nonproduction-customer" -> "prod"
          [] OTHER -> "nonprod"]

\* "{0}-{1}".format(config_map[account_type], base_region)
config_options(acct, region) == <<config_map[account_type[acct]], region>>

----------------------------------------------------------------------------
(* CIDR arithmetic: ipaddress.IPv4Network *)

RECURSIVE Pow2(_)
Pow2(n) == IF n <= 0 THEN 1 ELSE 2 * Pow2(n - 1)

Net(a, b, c, d, len) ==
    [addr |-> ((a * 256 + b) * 256 + c) * 256 + d, len |-> len]

NoCidr == [addr |-> -1, len |-> -1]

NumAddresses(c) == Pow2(AddrBits - c.len)

First(c) == c.addr

Last(c) == c.addr + (NumAddresses(c) - 1)

Overlaps(c1, c2) == First(c1) <= Last(c2) /\ First(c2) <= Last(c1)

\* list(net.subnets(new_prefix=np)): the subnets of net of prefix length np,
\* in address order
subnets(net, np) ==
    [k \in 1..Pow2(np - net.len) |->
        [addr |-> net.addr + (k - 1) * Pow2(AddrBits - np), len |-> np]]

\* network[-3:] of the compressed string "a.b.c.d/len": "/len" when len has
\* two digits, otherwise a string "d/l" that is no "/NN" (coded as -len)
Last3(c) == IF c.len >= 10 THEN c.len ELSE 0 - c.len

\* "ip_allocation in ip_block": the substring "/NN" occurs in "a.b.c.d/len"
\* exactly when len = NN
AllocationInBlock(alloc, c) == c.len = alloc

\* The while loop of cidr_slicing from iteration i on, with the list built so
\* far; prefixlen is the prefix length of the block cidr_slicing was given.
RECURSIVE SliceLoop(_, _, _, _, _)
SliceLoop(availablenetwork, prefixlen, prefixlen_diff, i, fulllist) ==
    IF i > prefixlen_diff THEN fulllist
    ELSE LET sliced2_network == subnets(availablenetwork, prefixlen + i)
             next == sliced2_network[Len(sliced2_network)]
             withFirst == Append(fulllist, sliced2_network[1])
         IN SliceLoop(next, prefixlen, prefixlen_diff, i + 1,
                      IF i = prefixlen_diff THEN Append(withFirst, next)
                      ELSE withFirst)

\* cidr_slicing without "if i == prefixlen_diff: ...append(availablenetwork...)"
cidr_slicing_without_last(block, mask) ==
    LET full == SliceLoop(block, block.len, mask - block.len, 1, <<>>)
    IN IF Len(full) = 0 THEN full ELSE SubSeq(full, 1, Len(full) - 1)

cidr_slicing(block, mask) ==
    SliceLoop(block, block.len, mask - block.len, 1, <<>>)

----------------------------------------------------------------------------
(* The ip_allocations table *)

NoSize == 0

NoAttr == "none"

NoConfig == <<>>

AttrNames == {"size", "availability", "region", "account_id", "config_options"}

EmptyItem ==
    [size |-> NoSize, availability |-> NoAttr, region |-> NoAttr,
     account_id |-> NoAttr, config_options |-> NoConfig]

\* update_item that does not create an absent item
update_item_existing_only(l, key, attrs) ==
    IF key \notin DOMAIN l THEN l
    ELSE [k \in DOMAIN l |->
            IF k = key
            THEN [f \in AttrNames |-> IF f \in DOMAIN attrs THEN attrs[f] ELSE l[k][f]]
            ELSE l[k]]

\* update_item with a condition: an item that is in use is not set in use
\* again
update_item_unless_in_use(l, key, attrs) ==
    IF key \in DOMAIN l /\ l[key].availability = "in-use"
          /\ attrs.availability = "in-use"
    THEN l
    ELSE LET old == IF key \in DOMAIN l THEN l[key] ELSE EmptyItem
             new == [f \in AttrNames |-> IF f \in DOMAIN attrs THEN attrs[f] ELSE old[f]]
         IN [k \in DOMAIN l \cup {key} |-> IF k = key THEN new ELSE l[k]]

\* update_item(Key, UpdateExpression "SET ..."): creates the item when the
\* key is absent, overwrites the attributes named and keeps the others; no
\* ConditionExpression is given.
update_item(l, key, attrs) ==
    LET old == IF key \in DOMAIN l THEN l[key] ELSE EmptyItem
        new == [f \in AttrNames |-> IF f \in DOMAIN attrs THEN attrs[f] ELSE old[f]]
    IN [k \in DOMAIN l \cup {key} |-> IF k = key THEN new ELSE l[k]]

\* delete_item that removes nothing
delete_item_kept(l, key) == l

\* delete_item(Key): removes the item; an absent key is no error
delete_item(l, key) == [k \in DOMAIN l \ {key} |-> l[k]]

\* scan without the availability condition
scan_any_availability(l, size, region) ==
    {c \in DOMAIN l : l[c].size = size /\ l[c].region = region}

\* scan without the region condition
scan_any_region(l, size, region) ==
    {c \in DOMAIN l : l[c].size = size /\ l[c].availability = "available"}

\* scan with FilterExpression
\* '#size = :size and availability = :availability and #region = :region'
scan(l, size, region) ==
    {c \in DOMAIN l : /\ l[c].size = size
                      /\ l[c].availability = "available"
                      /\ l[c].region = region}

----------------------------------------------------------------------------
(* Initial tables: pairwise disjoint blocks, size = prefix length, owner   *)
(* and config tag on the in-use items only.                                *)

AvailableItem(c, region) ==
    [size |-> c.len, availability |-> "available", region |-> region,
     account_id |-> NoAttr, config_options |-> NoConfig]

InUseItem(c, region, acct) ==
    [size |-> c.len, availability |-> "in-use", region |-> region,
     account_id |-> acct, config_options |-> config_options(acct, region)]

Seeds ==
    {<<Net(10, 0, 0, 0, 20), AvailableItem(Net(10, 0, 0, 0, 20), "us-west-2")>>,
     <<Net(10, 0, 16, 0, 22), AvailableItem(Net(10, 0, 16, 0, 22), "us-west-2")>>,
     <<Net(10, 1, 0, 0, 16), AvailableItem(Net(10, 1, 0, 0, 16), "eu-west-1")>>,
     <<Net(10, 2, 0, 0, 24), InUseItem(Net(10, 2, 0, 0, 24), "us-west-2", "A")>>}

SeedLedger(S) ==
    [c \in {s[1] : s \in S} |-> (CHOOSE s \in S : s[1] = c)[2]]

InitLedgers == {SeedLedger(S) : S \in SUBSET Seeds}

\* The requests of a single run: every size from the floor to /28
Allocations == MinNetmask..MaxAllocation

\* The requests of the runs of a sequence
SeqAllocations == {20, 21, 22, 24}

\* The requests of two interleaved runs, each run for an account of its own
RaceAllocations == {20, 22}

RaceAccount(p) == IF p = 1 THEN "A" ELSE "B"

ManualCidrs ==
    {Net(10, 0, 0, 0, 21), Net(10, 0, 8, 0, 22), Net(10, 2, 0, 0, 24),
     Net(10, 2, 0, 0, 25)}

\* --ip_allocation of a run with a manual CIDR
ManualAllocations == {22}

\* Blocks and targets cidr_slicing is applied to on its own
SplitParents ==
    {[addr |-> 0, len |-> n] : n \in 2..31}
        \cup {Net(10, 0, 0, 0, n) : n \in 8..31}
        \cup {Net(10, 0, 16, 0, 20), Net(10, 1, 128, 0, 17), Net(127, 255, 255, 254, 31),
              Net(100, 64, 0, 0, 10), Net(126, 0, 0, 0, 7)}

SplitTargets(parent) == parent.len..AddrBits

----------------------------------------------------------------------------
(* The script *)

\* The update_item and delete_item calls in a run's history
Writes(h) == {i \in 1..Len(h) : h[i][1] \in {"update", "delete"}}

\* The table writes of the runs so far (of their current histories)
NumWrites ==
    LET RECURSIVE Sum(_)
        Sum(S) == IF S = {} THEN 0
                  ELSE LET q == CHOOSE x \in S : TRUE
                       IN Cardinality(Writes(ops[q])) + Sum(S \ {q})
    IN Sum(Procs)

\* The last element instead of network_list[-2]
assigned_last(nl) == nl[Len(nl)]

\* network_list[-2]: "IP Block assigned"
assigned(nl) == nl[Len(nl) - 1]

\* The floor test with <= for <
BelowFloor_inclusive(n) == n <= MinNetmask

\* The floor test of the widening loop: "if netmask < 16"
BelowFloor(n) == n < MinNetmask

\* The exact-size update without config_options
ExactAttrs_without_tag(p) ==
    [availability |-> "in-use", account_id |-> account_id[p]]

\* SET availability, account_id, config_options (exact-size block)
ExactAttrs(p) ==
    [availability |-> "in-use", account_id |-> account_id[p],
     config_options |-> config_options(account_id[p], base_region[p])]

\* The slices written in-use instead of available
SliceAttrs_in_use(p, network) ==
    [size |-> Last3(network), availability |-> "in-use",
     region |-> base_region[p]]

\* SET #size, availability, #region (a slice of network_list)
SliceAttrs(p, network) ==
    [size |-> Last3(network), availability |-> "available",
     region |-> base_region[p]]

\* SET #size, availability, account_id, #region, config_options
\* (network_list[-2])
AssignedAttrs(p, network) ==
    [size |-> Last3(network), availability |-> "in-use",
     account_id |-> account_id[p], region |-> base_region[p],
     config_options |-> config_options(account_id[p], base_region[p])]

\* SET #size, availability, account_id, #region, config_options
\* (manual CIDR; :size is ip_allocation)
ManualAttrs(p) ==
    [size |-> ip_allocation[p], availability |-> "in-use",
     account_id |-> account_id[p], region |-> base_region[p],
     config_options |-> config_options(account_id[p], base_region[p])]

Idle(p) == pc[p] \in {"idle", "done", "exhausted", "crashed"}

Begin(p, acct, region, alloc, manual) ==
    /\ account_id' = [account_id EXCEPT ![p] = acct]
    /\ base_region' = [base_region EXCEPT ![p] = region]
    /\ ip_allocation' = [ip_allocation EXCEPT ![p] = alloc]
    /\ manual_cidr' = [manual_cidr EXCEPT ![p] = manual]
    /\ netmask' = [netmask EXCEPT ![p] = alloc]
    /\ ip_block' = [ip_block EXCEPT ![p] = NoCidr]
    /\ network_list' = [network_list EXCEPT ![p] = <<>>]
    /\ idx' = [idx EXCEPT ![p] = 0]
    /\ new_cidr' = [new_cidr EXCEPT ![p] = NoCidr]
    /\ ops' = [ops EXCEPT ![p] = <<>>]
    /\ pre' = [pre EXCEPT ![p] = ledger]
    /\ pc' = [pc EXCEPT ![p] = IF manual = NoCidr THEN "scan" ELSE "manual"]
    /\ runs' = runs + 1
    /\ readAt' = [readAt EXCEPT ![p] = 0]
    /\ UNCHANGED <<ledger, overlapClaim>>

\* One run at a time: the script is started with manual_cidr = "no"
StartAuto(p) ==
    /\ p = 1
    /\ Idle(p)
    /\ runs < MaxRuns
    /\ \E acct \in Accounts, region \in Regions, alloc \in SeqAllocations :
          Begin(p, acct, region, alloc, NoCidr)

\* A single run with manual_cidr = "no", of any size from /16 to /28
StartRun(p) ==
    /\ p = 1
    /\ pc[p] = "idle"
    /\ runs = 0
    /\ \E acct \in Accounts, region \in Regions, alloc \in Allocations :
          Begin(p, acct, region, alloc, NoCidr)

\* Two runs with manual_cidr = "no", started independently of each other
StartRace(p) ==
    /\ pc[p] = "idle"
    /\ \E region \in Regions, alloc \in RaceAllocations :
          Begin(p, RaceAccount(p), region, alloc, NoCidr)

\* One run at a time: the script is started with a manual CIDR
StartManual(p) ==
    /\ p = 1
    /\ Idle(p)
    /\ runs < MaxRuns
    /\ \E acct \in Accounts, region \in Regions, alloc \in ManualAllocations,
          c \in ManualCidrs :
          Begin(p, acct, region, alloc, c)

\* A scan that sets the item it finds in use at once
Scan_marking(p) ==
    /\ pc[p] = "scan"
    /\ ops' = [ops EXCEPT ![p] = Append(@, <<"scan", netmask[p]>>)]
    /\ LET items == scan(ledger, netmask[p], base_region[p]) IN
       IF items = {}
       THEN /\ netmask' = [netmask EXCEPT ![p] = @ - 1]
            /\ pc' = [pc EXCEPT ![p] =
                        IF BelowFloor(netmask[p] - 1) THEN "exhausted" ELSE "scan"]
            /\ UNCHANGED <<ledger, ip_block, network_list, idx>>
       ELSE \E c \in items :
            /\ ledger' = update_item(ledger, c, [availability |-> "in-use"])
            /\ ip_block' = [ip_block EXCEPT ![p] = c]
            /\ netmask' = [netmask EXCEPT ![p] = ip_allocation[p]]
            /\ IF AllocationInBlock(ip_allocation[p], c)
               THEN /\ pc' = [pc EXCEPT ![p] = "claim_exact"]
                    /\ UNCHANGED <<network_list, idx>>
               ELSE LET nl == cidr_slicing(c, ip_allocation[p]) IN
                    /\ network_list' = [network_list EXCEPT ![p] = nl]
                    /\ idx' = [idx EXCEPT ![p] = 1]
                    /\ pc' = [pc EXCEPT ![p] = IF Len(nl) < 2 THEN "crashed" ELSE "add"]
    /\ readAt' = [readAt EXCEPT ![p] =
                    IF scan(ledger, netmask[p], base_region[p]) = {} THEN @
                    ELSE NumWrites]
    /\ UNCHANGED <<account_id, base_region, ip_allocation, manual_cidr,
                   new_cidr, pre, runs, overlapClaim>>

\* The scan of the size netmask[p] and the code up to the next table call:
\* the widening loop's decrement and floor test on an empty result, and on a
\* match the choice of Items[0], the "in" test and cidr_slicing.
Scan(p) ==
    /\ pc[p] = "scan"
    /\ ops' = [ops EXCEPT ![p] = Append(@, <<"scan", netmask[p]>>)]
    /\ LET items == scan(ledger, netmask[p], base_region[p]) IN
       IF items = {}
       THEN /\ netmask' = [netmask EXCEPT ![p] = @ - 1]
            /\ pc' = [pc EXCEPT ![p] =
                        IF BelowFloor(netmask[p] - 1) THEN "exhausted" ELSE "scan"]
            /\ UNCHANGED <<ip_block, network_list, idx>>
       ELSE \E c \in items :
            /\ ip_block' = [ip_block EXCEPT ![p] = c]
            /\ netmask' = [netmask EXCEPT ![p] = ip_allocation[p]]
            /\ IF AllocationInBlock(ip_allocation[p], c)
               THEN /\ pc' = [pc EXCEPT ![p] = "claim_exact"]
                    /\ UNCHANGED <<network_list, idx>>
               ELSE LET nl == cidr_slicing(c, ip_allocation[p]) IN
                    /\ network_list' = [network_list EXCEPT ![p] = nl]
                    /\ idx' = [idx EXCEPT ![p] = 1]
                    \* network_list[-2] of a list shorter than 2 raises
                    /\ pc' = [pc EXCEPT ![p] = IF Len(nl) < 2 THEN "crashed" ELSE "add"]
    /\ readAt' = [readAt EXCEPT ![p] =
                    IF scan(ledger, netmask[p], base_region[p]) = {} THEN @
                    ELSE NumWrites]
    /\ UNCHANGED <<ledger, account_id, base_region, ip_allocation, manual_cidr,
                   new_cidr, pre, runs, overlapClaim>>

\* "Netmask matches, slicing not required": the found item is set in-use
ClaimExact(p) ==
    /\ pc[p] = "claim_exact"
    /\ ledger' = update_item(ledger, ip_block[p], ExactAttrs(p))
    /\ ops' = [ops EXCEPT ![p] = Append(@, <<"update", ip_block[p], "in-use">>)]
    /\ new_cidr' = [new_cidr EXCEPT ![p] = ip_block[p]]
    /\ pc' = [pc EXCEPT ![p] = "done"]
    /\ UNCHANGED <<account_id, base_region, ip_allocation, manual_cidr, netmask,
                   ip_block, network_list, idx, pre, runs, overlapClaim, readAt>>

\* One iteration of "for network in network_list": the slice is set available
AddSlice(p) ==
    /\ pc[p] = "add"
    /\ LET network == network_list[p][idx[p]] IN
       /\ ledger' = update_item(ledger, network, SliceAttrs(p, network))
       /\ ops' = [ops EXCEPT ![p] =
                    Append(@, <<"update", network, SliceAttrs(p, network).availability>>)]
    /\ idx' = [idx EXCEPT ![p] = @ + 1]
    /\ pc' = [pc EXCEPT ![p] =
                IF idx[p] = Len(network_list[p]) THEN "claim_split" ELSE "add"]
    /\ UNCHANGED <<account_id, base_region, ip_allocation, manual_cidr, netmask,
                   ip_block, network_list, new_cidr, pre, runs, overlapClaim, readAt>>

\* "Updating allocated CIDR to 'in-use'": network_list[-2]
ClaimSplit(p) ==
    /\ pc[p] = "claim_split"
    /\ LET taken == assigned(network_list[p]) IN
       /\ ledger' = update_item(ledger, taken, AssignedAttrs(p, taken))
       /\ ops' = [ops EXCEPT ![p] = Append(@, <<"update", taken, "in-use">>)]
       /\ new_cidr' = [new_cidr EXCEPT ![p] = taken]
    /\ pc' = [pc EXCEPT ![p] = "delete"]
    /\ UNCHANGED <<account_id, base_region, ip_allocation, manual_cidr, netmask,
                   ip_block, network_list, idx, pre, runs, overlapClaim, readAt>>

\* The delete applied to the block assigned instead of the block found
DeleteParent_assigned(p) ==
    /\ pc[p] = "delete"
    /\ ledger' = delete_item(ledger, new_cidr[p])
    /\ ops' = [ops EXCEPT ![p] = Append(@, <<"delete", new_cidr[p]>>)]
    /\ pc' = [pc EXCEPT ![p] = "done"]
    /\ UNCHANGED <<locals, pre, runs, overlapClaim, readAt>>

\* "Remove original CIDR which got sliced"
DeleteParent(p) ==
    /\ pc[p] = "delete"
    /\ ledger' = delete_item(ledger, ip_block[p])
    /\ ops' = [ops EXCEPT ![p] = Append(@, <<"delete", ip_block[p]>>)]
    /\ pc' = [pc EXCEPT ![p] = "done"]
    /\ UNCHANGED <<locals, pre, runs, overlapClaim, readAt>>

\* "If manual CIDR is entered, don't bother slicing and skip right to
\* updating the table"
Manual(p) ==
    /\ pc[p] = "manual"
    /\ ledger' = update_item(ledger, manual_cidr[p], ManualAttrs(p))
    /\ ops' = [ops EXCEPT ![p] = Append(@, <<"update", manual_cidr[p], "in-use">>)]
    /\ ip_block' = [ip_block EXCEPT ![p] = manual_cidr[p]]
    /\ new_cidr' = [new_cidr EXCEPT ![p] = manual_cidr[p]]
    /\ overlapClaim' = (overlapClaim \/
                        \E k \in DOMAIN ledger :
                            k /= manual_cidr[p] /\ Overlaps(k, manual_cidr[p]))
    /\ pc' = [pc EXCEPT ![p] = "done"]
    /\ UNCHANGED <<account_id, base_region, ip_allocation, manual_cidr, netmask,
                   network_list, idx, pre, runs, readAt>>

\* The positions at which the next statement is an update_item or a
\* delete_item call
AtWrite(p) == pc[p] \in {"claim_exact", "add", "claim_split", "delete", "manual"}

\* A failing write that also puts the table back as it was at the run's start
WriteFails_undoing(p) ==
    /\ AtWrite(p)
    /\ ledger' = pre[p]
    /\ ops' = [ops EXCEPT ![p] = Append(@, <<"failed">>)]
    /\ pc' = [pc EXCEPT ![p] = "failed"]
    /\ UNCHANGED <<locals, pre, runs, overlapClaim, readAt>>

\* An update_item or delete_item call raises: no try/except surrounds the
\* calls, so the exception ends the script; the call has no effect on the
\* table and nothing is undone.
WriteFails(p) ==
    /\ AtWrite(p)
    /\ ops' = [ops EXCEPT ![p] = Append(@, <<"failed">>)]
    /\ pc' = [pc EXCEPT ![p] = "failed"]
    /\ UNCHANGED <<ledger, locals, pre, runs, overlapClaim, readAt>>

Init ==
    /\ ledger \in InitLedgers
    /\ pc = [p \in Procs |-> "idle"]
    /\ account_id = [p \in Procs |-> "A"]
    /\ base_region = [p \in Procs |-> "us-west-2"]
    /\ ip_allocation = [p \in Procs |-> MinNetmask]
    /\ manual_cidr = [p \in Procs |-> NoCidr]
    /\ netmask = [p \in Procs |-> MinNetmask]
    /\ ip_block = [p \in Procs |-> NoCidr]
    /\ network_list = [p \in Procs |-> <<>>]
    /\ idx = [p \in Procs |-> 0]
    /\ new_cidr = [p \in Procs |-> NoCidr]
    /\ ops = [p \in Procs |-> <<>>]
    /\ pre = [p \in Procs |-> ledger]
    /\ runs = 0
    /\ overlapClaim = FALSE
    /\ readAt = [p \in Procs |-> 0]

Next ==
    \E p \in Procs :
        \/ StartAuto(p)
        \/ StartManual(p)
        \/ Scan(p)
        \/ ClaimExact(p)
        \/ AddSlice(p)
        \/ ClaimSplit(p)
        \/ DeleteParent(p)
        \/ Manual(p)

\* Runs one after the other, with or without a manual CIDR
Spec == Init /\ [][Next]_vars

NextRun ==
    \E p \in Procs :
        \/ StartRun(p)
        \/ Scan(p)
        \/ ClaimExact(p)
        \/ AddSlice(p)
        \/ ClaimSplit(p)
        \/ DeleteParent(p)

\* One run without a manual CIDR
SpecRun == Init /\ [][NextRun]_vars

NextRace ==
    \E p \in Procs :
        \/ StartRace(p)
        \/ Scan(p)
        \/ ClaimExact(p)
        \/ AddSlice(p)
        \/ ClaimSplit(p)
        \/ DeleteParent(p)

\* Two runs without a manual CIDR, interleaved call by call
SpecRace == Init /\ [][NextRace]_vars

NextFail ==
    \E p \in Procs :
        \/ StartAuto(p)
        \/ StartManual(p)
        \/ Scan(p)
        \/ ClaimExact(p)
        \/ AddSlice(p)
        \/ ClaimSplit(p)
        \/ DeleteParent(p)
        \/ Manual(p)
        \/ WriteFails(p)

\* Runs one after the other in which any write may raise
SpecFail == Init /\ [][NextFail]_vars

NextAuto ==
    \E p \in Procs :
        \/ StartAuto(p)
        \/ Scan(p)
        \/ ClaimExact(p)
        \/ AddSlice(p)
        \/ ClaimSplit(p)
        \/ DeleteParent(p)

\* Runs one after the other, none with a manual CIDR
SpecAuto == Init /\ [][NextAuto]_vars

\* cidr_slicing on its own: the block and the target are drawn at the start
InitSplit ==
    /\ ledger = SeedLedger({})
    /\ pc = [p \in Procs |-> IF p = 1 THEN "slicing" ELSE "idle"]
    /\ account_id = [p \in Procs |-> "A"]
    /\ base_region = [p \in Procs |-> "us-west-2"]
    /\ \E parent \in SplitParents : \E target \in SplitTargets(parent) :
          /\ ip_block = [p \in Procs |-> IF p = 1 THEN parent ELSE NoCidr]
          /\ netmask = [p \in Procs |-> IF p = 1 THEN target ELSE MinNetmask]
          /\ ip_allocation = netmask
    /\ manual_cidr = [p \in Procs |-> NoCidr]
    /\ network_list = [p \in Procs |-> <<>>]
    /\ idx = [p \in Procs |-> 0]
    /\ new_cidr = [p \in Procs |-> NoCidr]
    /\ ops = [p \in Procs |-> <<>>]
    /\ pre = [p \in Procs |-> ledger]
    /\ runs = 0
    /\ overlapClaim = FALSE
    /\ readAt = [p \in Procs |-> 0]

\* network_list = cidr_slicing(ip_block, netmask)
Slice(p) ==
    /\ pc[p] = "slicing"
    /\ network_list' = [network_list EXCEPT ![p] = cidr_slicing(ip_block[p], netmask[p])]
    /\ pc' = [pc EXCEPT ![p] = "sliced"]
    /\ UNCHANGED <<ledger, account_id, base_region, ip_allocation, manual_cidr,
                   netmask, ip_block, idx, new_cidr, ops, pre, runs, overlapClaim,
                   readAt>>

NextSplit == \E p \in Procs : Slice(p)

SpecSplit == InitSplit /\ [][NextSplit]_vars

----------------------------------------------------------------------------
(* Properties *)

InUseKeys(l) == {c \in DOMAIN l : l[c].availability = "in-use"}

AvailableKeys(l) == {c \in DOMAIN l : l[c].availability = "available"}

PairwiseDisjoint(S) == \A c1, c2 \in S : c1 /= c2 => ~Overlaps(c1, c2)

Within(c, parent) == First(parent) <= First(c) /\ Last(c) <= Last(parent)

RECURSIVE SumAddresses(_, _)
SumAddresses(list, n) ==
    IF n = 0 THEN 0 ELSE NumAddresses(list[n]) + SumAddresses(list, n - 1)

NoRunInProgress == \A p \in Procs : Idle(p)

SeedKeys == {s[1] : s \in Seeds}

\* C1 as claimed: whenever no run is in progress, after runs executed one at
\* a time, with or without a manual CIDR, no two in-use items overlap.
C1_InUseDisjointAnyManual ==
    NoRunInProgress => PairwiseDisjoint(InUseKeys(ledger))

\* C1 amended: as long as no manual CIDR overlapped the CIDR of another item
\* of the table, no two in-use items overlap, in any state of a sequence of
\* runs executed one at a time.
C1_InUseDisjoint ==
    ~overlapClaim => PairwiseDisjoint(InUseKeys(ledger))

\* C1 witness: two runs have claimed two blocks that were not in use at the
\* start, one of them by a split, and no manual CIDR overlapped another item.
C1_Witness ==
    /\ NoRunInProgress
    /\ ~overlapClaim
    /\ runs >= 2
    /\ Len(network_list[1]) >= 2
    /\ Cardinality(InUseKeys(ledger) \ InUseKeys(SeedLedger(Seeds))) >= 2

\* C2: the list cidr_slicing returns for a target longer than the block's
\* prefix is pairwise non-overlapping, covers the block exactly (every
\* element inside the block, the sizes adding up to the block's size) and
\* ends with an element of the target prefix length.
C2_SplitCorrect ==
    \A p \in Procs :
        (pc[p] = "sliced" /\ netmask[p] > ip_block[p].len) =>
            LET list == network_list[p] IN
            /\ Len(list) >= 1
            /\ \A i, j \in 1..Len(list) : i /= j => ~Overlaps(list[i], list[j])
            /\ \A i \in 1..Len(list) : Within(list[i], ip_block[p])
            /\ SumAddresses(list, Len(list)) = NumAddresses(ip_block[p])
            /\ list[Len(list)].len = netmask[p]

\* C2 witness: a split over at least three halvings has been computed.
C2_Witness ==
    /\ pc[1] = "sliced"
    /\ netmask[1] - ip_block[1].len >= 3
    /\ Len(network_list[1]) = netmask[1] - ip_block[1].len + 1

\* A run without a manual CIDR has completed after splitting a block
SplitRunDone(p) ==
    pc[p] = "done" /\ manual_cidr[p] = NoCidr /\ Len(network_list[p]) >= 2

\* C3 as claimed: after a completed run that split a block, the in-use item
\* and the CIDR returned are the last element of the split sequence, and
\* every other element is stored available.
C3_LastElementClaimed ==
    \A p \in Procs :
        SplitRunDone(p) =>
            LET list == network_list[p] IN
            /\ new_cidr[p] = list[Len(list)]
            /\ ledger[list[Len(list)]].availability = "in-use"
            /\ \A i \in 1..(Len(list) - 1) : ledger[list[i]].availability = "available"

\* C3 amended: after a completed run that split a block, the in-use item and
\* the CIDR returned are the second-to-last element of the split sequence
\* (which has the requested prefix length), and every other element, the
\* last one included, is stored available.
C3_SecondToLastClaimed ==
    \A p \in Procs :
        SplitRunDone(p) =>
            LET list == network_list[p] IN
            /\ new_cidr[p] = list[Len(list) - 1]
            /\ new_cidr[p].len = ip_allocation[p]
            /\ ledger[list[Len(list) - 1]].availability = "in-use"
            /\ \A i \in 1..Len(list) :
                  i /= Len(list) - 1 => ledger[list[i]].availability = "available"

\* C3 witness: a run that split a block over two or more halvings is done.
C3_Witness == SplitRunDone(1) /\ Len(network_list[1]) >= 3

Block20 == Net(10, 0, 0, 0, 20)

\* The /20 -> /22 scenario: the table held only the available 10.0.0.0/20 of
\* us-west-2 and a run for /22 in us-west-2 has completed.
Scenario20To22(p) ==
    /\ pc[p] = "done"
    /\ manual_cidr[p] = NoCidr
    /\ pre[p] = SeedLedger({<<Block20, AvailableItem(Block20, "us-west-2")>>})
    /\ ip_allocation[p] = 22
    /\ base_region[p] = "us-west-2"

KeysOf(l, len, availability) ==
    {c \in DOMAIN l : c.len = len /\ l[c].availability = availability}

\* C4 as claimed: the scenario leaves two available /21 blocks, one
\* available /22 block, exactly one in-use /22 block and no 10.0.0.0/20.
C4_TwoSlash21 ==
    \A p \in Procs :
        Scenario20To22(p) =>
            /\ Cardinality(KeysOf(ledger, 21, "available")) = 2
            /\ Cardinality(KeysOf(ledger, 22, "available")) = 1
            /\ Cardinality(KeysOf(ledger, 22, "in-use")) = 1
            /\ Block20 \notin DOMAIN ledger

\* C4 amended: the scenario leaves exactly three items: one available /21
\* block (10.0.0.0/21), one available /22 block (10.0.12.0/22), one in-use
\* /22 block (10.0.8.0/22), and no 10.0.0.0/20.
C4_OneSlash21 ==
    \A p \in Procs :
        Scenario20To22(p) =>
            /\ DOMAIN ledger =
                  {Net(10, 0, 0, 0, 21), Net(10, 0, 8, 0, 22), Net(10, 0, 12, 0, 22)}
            /\ KeysOf(ledger, 21, "available") = {Net(10, 0, 0, 0, 21)}
            /\ KeysOf(ledger, 22, "available") = {Net(10, 0, 12, 0, 22)}
            /\ KeysOf(ledger, 22, "in-use") = {Net(10, 0, 8, 0, 22)}
            /\ new_cidr[p] = Net(10, 0, 8, 0, 22)
            /\ Block20 \notin DOMAIN ledger

\* C4 witness: the scenario's run has completed.
C4_Witness == Scenario20To22(1) /\ Len(ops[1]) = 8

\* The table of the run's start holds no available item of the run's region
\* with a prefix length from 16 to the requested one
NothingToFind(p) ==
    ~\E c \in AvailableKeys(pre[p]) :
        /\ pre[p][c].region = base_region[p]
        /\ c.len \in MinNetmask..ip_allocation[p]

\* C5: a run for a size d in 16..28 that has nothing to find only scans, for
\* the sizes d, d-1, ... in this order and never for a size below 16, and it
\* has ended with "Not able to find ..." exactly when it has made
\* d - 16 + 1 scans; it writes nothing.
C5_WideningTerminates ==
    \A p \in Procs :
        (pc[p] /= "idle" /\ manual_cidr[p] = NoCidr /\ NothingToFind(p)) =>
            LET d == ip_allocation[p] IN
            /\ pc[p] \in {"scan", "exhausted"}
            /\ Len(ops[p]) <= d - 16 + 1
            /\ \A i \in 1..Len(ops[p]) : ops[p][i] = <<"scan", d - i + 1>>
            /\ (pc[p] = "exhausted") <=> (Len(ops[p]) = d - 16 + 1)
            /\ pc[p] = "scan" => netmask[p] = d - Len(ops[p])
            /\ ledger = pre[p]

\* C5 witness: a run for /28 ended exhausted after its 13 scans, in a region
\* whose only available blocks are smaller than the request or of another
\* region.
C5_Witness ==
    /\ pc[1] = "exhausted"
    /\ ip_allocation[1] = 28
    /\ Len(ops[1]) = 13
    /\ ops[1][13] = <<"scan", 16>>
    /\ AvailableKeys(ledger) /= {}

\* A run with a manual CIDR has completed
ManualRunDone(p) == pc[p] = "done" /\ manual_cidr[p] /= NoCidr

\* C6: a completed run with a manual CIDR c has made one table call, the
\* update of c and no scan; the item of c is in use with the run's account,
\* region and config tag, whatever it was before, and every other item is
\* as it was.
C6_ManualOverride ==
    \A p \in Procs :
        ManualRunDone(p) =>
            LET c == manual_cidr[p] IN
            /\ ops[p] = << <<"update", c, "in-use">> >>
            /\ DOMAIN ledger = DOMAIN pre[p] \cup {c}
            /\ ledger[c].availability = "in-use"
            /\ ledger[c].account_id = account_id[p]
            /\ ledger[c].region = base_region[p]
            /\ ledger[c].config_options = config_options(account_id[p], base_region[p])
            /\ \A k \in DOMAIN pre[p] \ {c} : ledger[k] = pre[p][k]
            /\ new_cidr[p] = c

\* C6 witness: a manual CIDR that was in use by another account in another
\* region has been claimed.
C6_Witness ==
    /\ ManualRunDone(1)
    /\ manual_cidr[1] \in InUseKeys(pre[1])
    /\ pre[1][manual_cidr[1]].account_id /= account_id[1]
    /\ pre[1][manual_cidr[1]].region /= base_region[1]

\* C7: with two runs interleaved call by call no write is refused: each
\* update of a slice leaves the slice available, and each in-use update
\* leaves the block in use by the account of the run that wrote it and lets
\* the run go on, whatever the other run has written to the item meanwhile.
C7_NoWriteRefused ==
    [][\A p \in Procs :
          /\ (pc[p] = "add" /\ idx'[p] /= idx[p]) =>
                LET network == network_list[p][idx[p]] IN
                /\ network \in DOMAIN ledger'
                /\ ledger'[network].availability = "available"
          /\ (pc[p] \in {"claim_exact", "claim_split"} /\ pc'[p] /= pc[p]) =>
                /\ pc'[p] \in {"done", "delete"}
                /\ new_cidr'[p] \in DOMAIN ledger'
                /\ ledger'[new_cidr'[p]].availability = "in-use"
                /\ ledger'[new_cidr'[p]].account_id = account_id[p]]_vars

\* C7 witness: two runs for the same size and region found the same
\* available block when no run had written yet, both have completed and
\* both return the same CIDR, which is in use by one of their accounts.
C7_Witness ==
    /\ pc[1] = "done" /\ pc[2] = "done"
    /\ ip_allocation[1] = ip_allocation[2]
    /\ base_region[1] = base_region[2]
    /\ ip_block[1] = ip_block[2]
    /\ ip_block[1] \in AvailableKeys(pre[1]) \cap AvailableKeys(pre[2])
    /\ readAt[1] = 0 /\ readAt[2] = 0
    /\ new_cidr[1] = new_cidr[2]
    /\ account_id[1] /= account_id[2]
    /\ ledger[new_cidr[1]].availability = "in-use"
    /\ ledger[new_cidr[1]].account_id \in {account_id[1], account_id[2]}

\* The steps of the run order: 1 scan, 2 available update, 3 in-use update,
\* 4 delete
Kind(e) ==
    IF e[1] = "scan" THEN 1
    ELSE IF e[1] = "delete" THEN 4
    ELSE IF e[3] = "available" THEN 2 ELSE 3

OfKind(h, n) == {i \in 1..Len(h) : Kind(h[i]) = n}

\* A run without a manual CIDR has completed
AutoRunDone(p) == pc[p] = "done" /\ manual_cidr[p] = NoCidr

\* The calls of a completed run are in the order scans, available updates,
\* one in-use update, at most one delete (of the block found, when it was
\* split)
OpsInOrder(p) ==
    LET h == ops[p] IN
    /\ \A i, j \in 1..Len(h) : i < j => Kind(h[i]) <= Kind(h[j])
    /\ Cardinality(OfKind(h, 1)) >= 1
    /\ Cardinality(OfKind(h, 3)) = 1
    /\ \A i \in OfKind(h, 3) : h[i][2] = new_cidr[p]
    /\ Cardinality(OfKind(h, 4)) = (IF new_cidr[p] /= ip_block[p] THEN 1 ELSE 0)
    /\ \A i \in OfKind(h, 4) : h[i][2] = ip_block[p]

\* C8 as claimed: a completed run makes its calls in the order scans,
\* available updates, one in-use update, at most one delete after a split,
\* and the available updates are one per sibling: the block that ends up
\* claimed is never written as available.
C8_SiblingsOnlyWrittenAvailable ==
    \A p \in Procs :
        AutoRunDone(p) =>
            /\ OpsInOrder(p)
            /\ \A i \in OfKind(ops[p], 2) : ops[p][i][2] /= new_cidr[p]
            /\ {ops[p][i][2] : i \in OfKind(ops[p], 2)} =
                  {network_list[p][i] : i \in 1..Len(network_list[p])} \ {new_cidr[p]}

ScanOps(d, k) == [i \in 1..k |-> <<"scan", d - i + 1>>]

SliceOps(list) == [i \in 1..Len(list) |-> <<"update", list[i], "available">>]

\* C8 amended: a completed run makes its calls in the order scans (from the
\* requested size down to the size of the block found), one available
\* update per element of the split sequence in sequence order - the block
\* that ends up claimed included, so it is first written available - then
\* one in-use update of the claimed block, then, only after a split, one
\* delete of the block found.
C8_AllSlicesWrittenAvailable ==
    \A p \in Procs :
        AutoRunDone(p) =>
            LET list == network_list[p]
                d == ip_allocation[p]
            IN /\ OpsInOrder(p)
               /\ ops[p] = ScanOps(d, d - ip_block[p].len + 1)
                              \o SliceOps(list)
                              \o << <<"update", new_cidr[p], "in-use">> >>
                              \o (IF Len(list) > 0
                                  THEN << <<"delete", ip_block[p]>> >> ELSE <<>>)
               /\ Len(list) > 0 => \E i \in OfKind(ops[p], 2) : ops[p][i][2] = new_cidr[p]

\* C8 witness: a run that widened its scan and split a block has completed.
C8_Witness ==
    /\ SplitRunDone(1)
    /\ Cardinality(OfKind(ops[1], 1)) >= 2
    /\ Cardinality(OfKind(ops[1], 2)) >= 3
    /\ Cardinality(OfKind(ops[1], 4)) = 1

\* C9 as claimed: in every state of a single run, between its table calls
\* too, no two items of the table overlap.
C9_DisjointAtEveryStep == PairwiseDisjoint(DOMAIN ledger)

Elements(list) == {list[i] : i \in 1..Len(list)}

\* C9 amended: in every state of a single run two items overlap only while
\* the run is between its first slice update and its delete, and then one of
\* the two is the block found and the other one of its slices; before the
\* first write and after the run has ended no two items overlap.
C9_OverlapOnlyParentAndSlices ==
    \A c1, c2 \in DOMAIN ledger :
        (c1 /= c2 /\ Overlaps(c1, c2)) =>
            \E p \in Procs :
                /\ pc[p] \in {"add", "claim_split", "delete"}
                /\ \/ c1 = ip_block[p] /\ c2 \in Elements(network_list[p])
                   \/ c2 = ip_block[p] /\ c1 \in Elements(network_list[p])

\* C9 witness: every slice is stored, the block found is not yet deleted.
C9_Witness ==
    /\ pc[1] = "delete"
    /\ ip_block[1] \in DOMAIN ledger
    /\ \A c \in Elements(network_list[1]) : c \in DOMAIN ledger /\ Overlaps(c, ip_block[1])
    /\ Cardinality(DOMAIN ledger) >= 5

OwnerTagIff(item) ==
    /\ item.availability = "in-use" =>
          item.account_id /= NoAttr /\ item.config_options /= NoConfig
    /\ item.availability /= "in-use" =>
          item.account_id = NoAttr /\ item.config_options = NoConfig

\* C10 as claimed: whenever no run is in progress, after runs executed one
\* at a time, with or without a manual CIDR, every item has an account and a
\* config tag exactly when it is in use.
C10_OwnerTagAnyManual ==
    NoRunInProgress => \A c \in DOMAIN ledger : OwnerTagIff(ledger[c])

\* C10 amended: starting from a pairwise non-overlapping table, as long as
\* no manual CIDR overlapped the CIDR of another item, every item has an
\* account and a config tag exactly when it is in use.
C10_OwnerTag ==
    ~overlapClaim => \A c \in DOMAIN ledger : OwnerTagIff(ledger[c])

\* C10 witness: after a manual claim and a split, both without overlap, the
\* table holds available slices and blocks in use by both accounts.
C10_Witness ==
    /\ NoRunInProgress
    /\ ~overlapClaim
    /\ SplitRunDone(1)
    /\ \E c \in InUseKeys(ledger) : c \in ManualCidrs /\ ledger[c].account_id = "B"
    /\ \E c \in InUseKeys(ledger) : c \notin ManualCidrs /\ ledger[c].account_id = "A"
    /\ AvailableKeys(ledger) \ SeedKeys /= {}

SizeMatchesPrefix(l) == \A c \in DOMAIN l : l[c].size = c.len

\* C11: whenever no run is in progress, after runs executed one at a time,
\* with or without a manual CIDR, the size stored in every item is the
\* prefix length of the item's CIDR.
C11_SizeMatchesPrefix ==
    NoRunInProgress => SizeMatchesPrefix(ledger)

\* C12: for a target equal to the block's prefix length cidr_slicing returns
\* the list of exactly one element, the block itself.
C12_EqualTargetReturnsParent ==
    \A p \in Procs :
        (pc[p] = "sliced" /\ netmask[p] = ip_block[p].len) =>
            network_list[p] = <<ip_block[p]>>

\* The attributes a logged update of the run p wrote
LoggedAttrs(p, e) ==
    IF e[3] = "available" THEN SliceAttrs(p, e[2])
    ELSE IF manual_cidr[p] /= NoCidr THEN ManualAttrs(p)
    ELSE IF network_list[p] = <<>> THEN ExactAttrs(p)
    ELSE AssignedAttrs(p, e[2])

\* The table l after the first n logged calls of the run p
RECURSIVE Replay(_, _, _)
Replay(p, l, n) ==
    IF n = 0 THEN l
    ELSE LET before == Replay(p, l, n - 1)
             e == ops[p][n]
         IN IF e[1] = "update" THEN update_item(before, e[2], LoggedAttrs(p, e))
            ELSE IF e[1] = "delete" THEN delete_item(before, e[2])
            ELSE before

\* C13: when a write of a run fails the run has ended, the failed call is
\* the last call it issued, and the table holds exactly the effects of the
\* writes made before it, none undone; in a split run whose in-use update
\* or delete failed, every slice is stored together with the block found.
C13_AbortWithoutRollback ==
    \A p \in Procs :
        pc[p] = "failed" =>
            LET h == ops[p]
                n == Len(h)
            IN /\ n >= 1
               /\ h[n] = <<"failed">>
               /\ \A i \in 1..(n - 1) : h[i] /= <<"failed">>
               /\ ledger = Replay(p, pre[p], n - 1)
               /\ (Len(network_list[p]) >= 2
                     /\ Cardinality(Writes(h)) >= Len(network_list[p])) =>
                        /\ ip_block[p] \in DOMAIN ledger
                        /\ Elements(network_list[p]) \subseteq DOMAIN ledger
                        /\ ledger[ip_block[p]] = pre[p][ip_block[p]]

\* C13 witness: the delete of a split run failed after all slices and the
\* in-use update were written; the block found is still stored.
C13_Witness ==
    /\ pc[1] = "failed"
    /\ Len(network_list[1]) >= 3
    /\ Cardinality(Writes(ops[1])) = Len(network_list[1]) + 1
    /\ ip_block[1] \in DOMAIN ledger
    /\ ledger[new_cidr[1]].availability = "in-use"
    /\ ledger /= pre[1]

\* The search of the run p has ended
SearchEnded(p) == manual_cidr[p] = NoCidr /\ pc[p] \notin {"idle", "scan"}

\* The available items of the requested region at the run's start whose
\* prefix length is between lo and hi
Candidates(p, lo, hi) ==
    {c \in AvailableKeys(pre[p]) :
        pre[p][c].region = base_region[p] /\ c.len \in lo..hi}

\* C14: a search for (d, region), d in 16..28, has ended with "Not able to
\* find ..." exactly when the table had no available item of the region with
\* prefix 16..d; otherwise the block found was available, of the region, and
\* of the greatest prefix p <= d that such an item has.
C14_BestFit ==
    \A p \in Procs :
        SearchEnded(p) =>
            /\ (pc[p] = "exhausted") <=>
                    (Candidates(p, MinNetmask, ip_allocation[p]) = {})
            /\ pc[p] /= "exhausted" =>
                    /\ ip_block[p] \in Candidates(p, MinNetmask, ip_allocation[p])
                    /\ Candidates(p, ip_block[p].len + 1, ip_allocation[p]) = {}

\* C14 witness: a /24 request finds 10.0.16.0/22 while 10.0.0.0/20 is also
\* available and 10.2.0.0/24 of the same region is in use.
C14_Witness ==
    /\ SearchEnded(1)
    /\ ip_allocation[1] = 24
    /\ ip_block[1] = Net(10, 0, 16, 0, 22)
    /\ Net(10, 0, 0, 0, 20) \in AvailableKeys(pre[1])
    /\ Net(10, 2, 0, 0, 24) \in InUseKeys(pre[1])
    /\ pre[1][Net(10, 2, 0, 0, 24)].region = base_region[1]

\* A run without a manual CIDR has completed on a block of the requested size
ExactRunDone(p) == AutoRunDone(p) /\ ip_block[p].len = ip_allocation[p]

\* C15: a completed run whose search found a block of the requested prefix
\* length has made exactly one write, the update of that block: the item is
\* in use with the run's account and config tag and keeps its size and
\* region; the keys and every other item are as before, and the CIDR
\* returned is the block found.
C15_ExactFrame ==
    \A p \in Procs :
        /\ (SearchEnded(p) /\ pc[p] /= "exhausted"
                /\ ip_block[p].len = ip_allocation[p]) =>
              pc[p] \in {"claim_exact", "done"}
        /\ ExactRunDone(p) =>
              LET h == ops[p] IN
              /\ Cardinality(Writes(h)) = 1
              /\ h[Len(h)] = <<"update", ip_block[p], "in-use">>
              /\ DOMAIN ledger = DOMAIN pre[p]
              /\ \A c \in DOMAIN ledger \ {ip_block[p]} : ledger[c] = pre[p][c]
              /\ ledger[ip_block[p]] =
                    [pre[p][ip_block[p]] EXCEPT
                        !.availability = "in-use",
                        !.account_id = account_id[p],
                        !.config_options =
                            config_options(account_id[p], base_region[p])]
              /\ pre[p][ip_block[p]].availability = "available"
              /\ new_cidr[p] = ip_block[p]

\* C15 witness: a /22 request of account B found 10.0.16.0/22 and set it in
\* use while 10.0.0.0/20 stays available.
C15_Witness ==
    /\ ExactRunDone(1)
    /\ account_id[1] = "B"
    /\ new_cidr[1] = Net(10, 0, 16, 0, 22)
    /\ ledger[new_cidr[1]].config_options /= NoConfig
    /\ Net(10, 0, 0, 0, 20) \in AvailableKeys(ledger)

\* The run p has not yet passed the statement after the selection of a block
BeforeFirstWrite(p) ==
    \/ pc[p] \in {"scan", "exhausted", "claim_exact"}
    \/ pc[p] = "add" /\ idx[p] = 1

\* C16: a run that ended with "Not able to find ..." has made no write and
\* the table is as it was before the run; in any run the table is unchanged
\* and no write is made until the search has found a block, and every scan
\* precedes every write.
C16_SearchReadOnly ==
    \A p \in Procs :
        /\ BeforeFirstWrite(p) => (ledger = pre[p] /\ Writes(ops[p]) = {})
        /\ Writes(ops[p]) /= {} => ip_block[p] /= NoCidr
        /\ \A i, j \in 1..Len(ops[p]) :
              (ops[p][i][1] = "scan" /\ j \in Writes(ops[p])) => i < j

\* C16 witness: a /20 request for eu-west-1 has ended with "Not able to
\* find ..." after five scans while 10.0.0.0/20 of us-west-2 is available;
\* the table is as it was.
C16_Witness ==
    /\ pc[1] = "exhausted"
    /\ ip_allocation[1] = 20
    /\ base_region[1] = "eu-west-1"
    /\ Len(ops[1]) = 5
    /\ Net(10, 0, 0, 0, 20) \in AvailableKeys(ledger)
    /\ ledger = pre[1]

\* C17 as claimed: in runs executed one at a time, with or without a manual
\* CIDR, an item that is in use stays stored and in use at every step.
C17_InUseStaysAnyManual ==
    [][\A c \in InUseKeys(ledger) : c \in InUseKeys(ledger')]_vars

\* C17 amended: in runs executed one at a time in which no manual CIDR
\* overlapped another item, an item that is in use stays stored and in use
\* at every step.
C17_InUseStays ==
    [][~overlapClaim' => \A c \in InUseKeys(ledger) : c \in InUseKeys(ledger')]_vars

\* C17 witness: a manual claim that overlapped nothing was followed by a run
\* that split a block; both blocks are in use.
C17_Witness ==
    /\ runs = MaxRuns
    /\ ~overlapClaim
    /\ SplitRunDone(1)
    /\ \E c \in InUseKeys(pre[1]) : c \in ManualCidrs /\ c \notin SeedKeys
    /\ InUseKeys(pre[1]) \subseteq InUseKeys(ledger)
    /\ new_cidr[1] \in InUseKeys(ledger) \ InUseKeys(pre[1])

\* The number of addresses of the blocks of S
RECURSIVE TotalAddresses(_)
TotalAddresses(S) ==
    IF S = {} THEN 0
    ELSE LET c == CHOOSE x \in S : TRUE
         IN NumAddresses(c) + TotalAddresses(S \ {c})

\* The blocks of l1 are pairwise disjoint and cover exactly the addresses of
\* the blocks of l0
SameAddressSpace(l0, l1) ==
    /\ PairwiseDisjoint(DOMAIN l1)
    /\ \A c \in DOMAIN l1 : \E k \in DOMAIN l0 : Within(c, k)
    /\ \A k \in DOMAIN l0 :
          TotalAddresses({c \in DOMAIN l1 : Within(c, k)}) = NumAddresses(k)

\* C18: after every completed run without a manual CIDR, runs executed one
\* at a time from a table of pairwise disjoint blocks, the blocks stored are
\* pairwise disjoint and cover exactly the addresses covered before the run.
C18_AddressSpaceConserved ==
    \A p \in Procs :
        (AutoRunDone(p) \/ pc[p] = "exhausted") =>
            /\ PairwiseDisjoint(DOMAIN pre[p])
            /\ SameAddressSpace(pre[p], ledger)

\* C18 witness: the second of two runs split 10.0.0.0/20 into more than two
\* slices after the first had changed the table.
C18_Witness ==
    /\ runs = MaxRuns
    /\ SplitRunDone(1)
    /\ Len(network_list[1]) >= 3
    /\ ip_block[1] \notin DOMAIN ledger
    /\ DOMAIN pre[1] \notin {DOMAIN l : l \in InitLedgers}

\* C19: a run without a manual CIDR for the region R leaves every item of
\* another region as it was, at every step; every item it has created or
\* changed has the region R; the block assigned has the requested prefix
\* length and lies inside the block found.
C19_RegionIsolation ==
    \A p \in Procs :
        (manual_cidr[p] = NoCidr /\ pc[p] /= "idle") =>
            /\ \A c \in DOMAIN pre[p] :
                  pre[p][c].region /= base_region[p] =>
                      (c \in DOMAIN ledger /\ ledger[c] = pre[p][c])
            /\ \A c \in DOMAIN ledger :
                  (c \notin DOMAIN pre[p] \/ ledger[c] /= pre[p][c]) =>
                      ledger[c].region = base_region[p]
            /\ AutoRunDone(p) =>
                  /\ new_cidr[p].len = ip_allocation[p]
                  /\ Within(new_cidr[p], ip_block[p])
                  /\ ledger[new_cidr[p]].region = base_region[p]

\* C19 witness: a /24 request for us-west-2 split 10.0.16.0/22 while
\* 10.1.0.0/16 of eu-west-1 is stored.
C19_Witness ==
    /\ SplitRunDone(1)
    /\ base_region[1] = "us-west-2"
    /\ ip_allocation[1] = 24
    /\ ip_block[1] = Net(10, 0, 16, 0, 22)
    /\ Net(10, 1, 0, 0, 16) \in DOMAIN ledger
    /\ ledger[Net(10, 1, 0, 0, 16)].region = "eu-west-1"

====
